---- MODULE Spec2Model ----
(***************************************************************************)
(* LabelMaker (labelmaker.py): a manual video annotation loop.  One        *)
(* LabelMaker object owns an OpenCV capture, a pandas label table indexed  *)
(* by frame number, the held frame, the current frame id and the mode      *)
(* cursor.  loop() renders the held frame, polls one key with waitKey      *)
(* (the mouse callback runs inside waitKey) and dispatches the key.        *)
(* Fields that are written and never read (pressed_key, time_last_grab,    *)
(* disp_frame, the progress bar) carry no behaviour and are left out.      *)
(***************************************************************************)
EXTENDS Integers, Sequences, FiniteSets, TLC

\* ---------------------------------------------------------------- bounds
MaxFrames == 5
MaxEvents == 5

\* ------------------------------------------------------------- constants
\* Python's None (self.frame, self.frame_id, force_mode, grab's arguments).
None == -99
\* An empty (never written) cell of the pandas table.
NaN == -1

MODES == <<"HA", "HP", "VA", "VP">>
COLUMNS == <<"presented", "label", "HAx", "HAy", "HPx", "HPy", "VAx", "VAy", "VPx", "VPy">>
ColumnSet == {COLUMNS[i] : i \in 1..Len(COLUMNS)}

\* '{}x'.format(MODES[m]) and '{}y'.format(MODES[m]), m a 0-based mode index
ColX(m) == <<"HAx", "HPx", "VAx", "VPx">>[m + 1]
ColY(m) == <<"HAy", "HPy", "VAy", "VPy">>[m + 1]

KEY_NONE == -1
KEY_ESC == 27
KEY_Q == 113
KEY_NEXT == 46
KEY_PREV == 44
KEY_OTHER == 120
Keys == {KEY_NONE, KEY_ESC, KEY_Q, KEY_NEXT, KEY_PREV, KEY_OTHER}

EVENT_MOUSEMOVE == 0
EVENT_LBUTTONDOWN == 1
MouseEvents == {EVENT_MOUSEMOVE, EVENT_LBUTTONDOWN}

\* pixel positions the annotator clicks at
Points == {<<10, 20>>, <<30, 40>>}

ForceModes == {None, 0, 1, 2, 3}

\* frame_skip values a session is constructed with (2 is the default)
Skips == {0, 1, 2}

VARIABLES
    num_frames,   \* self.num_frames: CAP_PROP_FRAME_COUNT
    frame_skip,   \* self.frame_skip
    force_mode,   \* self.force_mode (None or a mode index)
    pos,          \* the capture's CAP_PROP_POS_FRAMES
    frame,        \* self.frame: stream index of the held image, or None
    frame_id,     \* self.frame_id
    labels,       \* self.labels: row index -> (column -> cell)
    alive,        \* self.alive
    mode,         \* self.mode
    pc,           \* where the process is: "init" (constructed, loop not yet
                  \* entered), "waitKey" (polling), "returned" (loop left),
                  \* or the exception that ended it
    saves,        \* number of to_csv calls
    csv,          \* the table as last written by to_csv
    clicked,      \* a left click was handled in the waitKey call now polling
    lastTick,     \* the last entry of hist is a key that waitKey returned
                  \* after its mouse callback had handled a left click
    hist          \* the startup grab, then the clicks and the recognised key
                  \* presses dispatched so far, in order

vars == <<num_frames, frame_skip, force_mode, pos, frame, frame_id, labels,
          alive, mode, pc, saves, csv, clicked, lastTick, hist>>

\* ------------------------------------------------------------ label table
EmptyRow == [c \in ColumnSet |-> NaN]

\* pd.DataFrame(index=range(num_frames), columns=COLUMNS); labels['presented'] = 0
CreateLabels(n) == [f \in 0..(n - 1) |-> [EmptyRow EXCEPT !["presented"] = 0]]

\* SetLoc with the bug of assigning the row instead of the cell
SetLocWholeRow(lbl, f, col, v) ==
    [g \in (DOMAIN lbl) \cup {f} |->
        IF g = f THEN [EmptyRow EXCEPT ![col] = v] ELSE lbl[g]]

\* SetLoc with the bug of keeping a cell that already holds a value
SetLocKeepFirst(lbl, f, col, v) ==
    IF f \in DOMAIN lbl
    THEN IF lbl[f][col] = NaN THEN [lbl EXCEPT ![f][col] = v] ELSE lbl
    ELSE [g \in (DOMAIN lbl) \cup {f} |->
             IF g = f THEN [EmptyRow EXCEPT ![col] = v] ELSE lbl[g]]

\* labels.loc[f, col] = v : overwrites the cell; a missing row label is
\* appended (pandas setting with enlargement), its other cells empty.
SetLoc(lbl, f, col, v) ==
    IF f \in DOMAIN lbl
    THEN [lbl EXCEPT ![f][col] = v]
    ELSE [g \in (DOMAIN lbl) \cup {f} |->
             IF g = f THEN [EmptyRow EXCEPT ![col] = v] ELSE lbl[g]]

\* ---------------------------------------------------------------- capture
\* capture.read() at position p: decodes frame p and moves to p + 1, or
\* fails at the end of the stream and stays.
CaptureRead(p) ==
    IF p < num_frames
    THEN [rv |-> TRUE, frame |-> p, pos |-> p + 1]
    ELSE [rv |-> FALSE, frame |-> None, pos |-> p]

\* for _ in range(k): capture.read()
RECURSIVE SkipFrames(_, _)
SkipFrames(p, k) == IF k = 0 THEN p ELSE SkipFrames(CaptureRead(p).pos, k - 1)

Max(a, b) == IF a >= b THEN a ELSE b

\* ResetMode with the bug of ignoring the forced mode
ResetModeFirst(fm) == 0

\* self.mode = self.force_mode if self.force_mode else 0
ResetMode(fm) == IF fm # None /\ fm # 0 THEN fm ELSE 0

\* the position the capture is at before the decoding read
GrabSeek(relative, absolute) ==
    IF relative # None THEN Max(0, frame_id + relative)
    ELSE IF absolute # None THEN Max(0, absolute)
    ELSE SkipFrames(pos, frame_skip)

\* PresentedRow with the bug of marking the 0-based index of the decoded frame
PresentedRowDecoded(fid) == fid - 1

\* the row marked by a successful decode
PresentedRow(fid) == fid

\* GrabRaises with the bug of never raising
GrabNeverRaises(rv, fr) == FALSE

\* grab raises when the decode fails and no frame is held
GrabRaises(rv, fr) == ~rv /\ fr = None

\* grab(relative, absolute) applied to table lbl: the fields it assigns
Grab(lbl, relative, absolute) ==
    LET r == CaptureRead(GrabSeek(relative, absolute))
        fid == r.pos
    IN  [pos |-> r.pos,
         frame_id |-> fid,
         rv |-> r.rv,
         frame |-> IF r.rv THEN r.frame ELSE frame,
         labels |-> IF r.rv THEN SetLoc(lbl, PresentedRow(fid), "presented", 1) ELSE lbl,
         raised |-> GrabRaises(r.rv, frame),
         mode |-> ResetMode(force_mode)]

\* ------------------------------------------------------------------ events
\* one entry of hist: the input and the state the handler found and left
Event(ev, key, x, y, g, grabbed, m1) ==
    [ev |-> ev, key |-> key, x |-> x, y |-> y,
     fid0 |-> frame_id, fid1 |-> IF grabbed THEN g.frame_id ELSE frame_id,
     mode0 |-> mode, mode1 |-> m1,
     frame0 |-> frame, frame1 |-> IF grabbed THEN g.frame ELSE frame,
     grabbed |-> grabbed, rv |-> grabbed /\ g.rv]

\* ----------------------------------------------------------------- actions
\* LoopHead with the bug of a loop that does not test alive
LoopHeadNoExit(a, lbl, fid) ==
    IF fid \notin DOMAIN lbl THEN "KeyError" ELSE "waitKey"

\* loop(): the while test and the overlay lookup of the current row that
\* precede the next waitKey; where the process is afterwards
LoopHead(a, lbl, fid) ==
    IF ~a THEN "returned"
    ELSE IF fid \notin DOMAIN lbl THEN "KeyError"
    ELSE "waitKey"

\* __init__: the table is created, the mode set; nothing decoded yet
Init ==
    /\ num_frames \in 0..MaxFrames
    /\ frame_skip \in Skips
    /\ force_mode \in ForceModes
    /\ pos = 0
    /\ frame = None
    /\ frame_id = None
    /\ labels = CreateLabels(num_frames)
    /\ alive = TRUE
    /\ mode = IF force_mode # None THEN force_mode ELSE 0
    /\ pc = "init"
    /\ saves = 0
    /\ csv = <<>>
    /\ clicked = FALSE
    /\ lastTick = FALSE
    /\ hist = <<>>

\* loop(): self.grab(absolute=0), then the first pass to waitKey
Startup ==
    /\ pc = "init"
    /\ LET g == Grab(labels, None, 0)
       IN  /\ pos' = g.pos
           /\ frame_id' = g.frame_id
           /\ IF g.raised
              THEN /\ pc' = "IOError"
                   /\ hist' = Append(hist, Event("startup", KEY_NONE, NaN, NaN, g, TRUE, mode))
                   /\ UNCHANGED <<frame, labels, mode>>
              ELSE /\ pc' = LoopHead(alive, g.labels, g.frame_id)
                   /\ frame' = g.frame
                   /\ labels' = g.labels
                   /\ mode' = g.mode
                   /\ hist' = Append(hist, Event("startup", KEY_NONE, NaN, NaN, g, TRUE, g.mode))
    /\ UNCHANGED <<num_frames, frame_skip, force_mode, alive,
                   saves, csv, clicked, lastTick>>

\* ClickGrabs with the bug of an off-by-one comparison
ClickGrabsLate(m1, fm) == m1 > Len(MODES) \/ fm # None

\* process_mouse_event: whether the click goes on to grab()
ClickGrabs(m1, fm) == m1 >= Len(MODES) \/ fm # None

\* process_mouse_event, called by the window while waitKey polls
MouseEvent(event, x, y) ==
    /\ pc = "waitKey"
    /\ IF event = EVENT_LBUTTONDOWN
       THEN /\ Len(hist) <= MaxEvents
            /\ LET l1 == SetLoc(labels, frame_id, ColX(mode), x)
                   l2 == SetLoc(l1, frame_id, ColY(mode), y)
                   m1 == mode + 1
                   grabbed == ClickGrabs(m1, force_mode)
                   g == Grab(l2, None, None)
               IN  /\ IF grabbed
                      THEN /\ pos' = g.pos
                           /\ frame_id' = g.frame_id
                           /\ frame' = g.frame
                           /\ labels' = g.labels
                           /\ mode' = g.mode
                      ELSE /\ labels' = l2
                           /\ mode' = m1
                           /\ UNCHANGED <<pos, frame_id, frame>>
                   /\ hist' = Append(hist, Event("click", KEY_NONE, x, y, g, grabbed,
                                                 IF grabbed THEN g.mode ELSE m1))
            /\ clicked' = TRUE
            /\ lastTick' = FALSE
       ELSE UNCHANGED <<pos, frame, frame_id, labels, mode, clicked, lastTick, hist>>
    /\ UNCHANGED <<num_frames, frame_skip, force_mode, alive,
                   pc, saves, csv>>

\* PrevRelative with the bug of an offset one short
PrevRelativeOneShort(s) == -s - 1

\* process_key: the offset of the ',' key, grab(relative=-self.frame_skip - 2)
PrevRelative(s) == -s - 2

\* quit()
Quit ==
    /\ alive' = FALSE
    /\ saves' = saves + 1
    /\ csv' = labels

\* loop(): waitKey returns key; process_key(key); then the while test and
\* the next pass up to the next waitKey
WaitKey(key) ==
    /\ pc = "waitKey"
    /\ clicked' = FALSE
    /\ lastTick' = IF key \in {KEY_ESC, KEY_Q, KEY_NEXT, KEY_PREV} THEN clicked ELSE lastTick
    /\ IF key < 0
       THEN UNCHANGED <<pos, frame, frame_id, labels, alive, mode,
                        saves, csv, hist>>
       ELSE IF key \in {KEY_ESC, KEY_Q}
       THEN /\ Len(hist) <= MaxEvents
            /\ Quit
            /\ hist' = Append(hist, Event("key", key, NaN, NaN, <<>>, FALSE, mode))
            /\ UNCHANGED <<pos, frame, frame_id, labels, mode>>
       ELSE IF key \in {KEY_NEXT, KEY_PREV}
       THEN /\ Len(hist) <= MaxEvents
            /\ LET g == IF key = KEY_NEXT
                        THEN Grab(labels, None, None)
                        ELSE Grab(labels, PrevRelative(frame_skip), None)
               IN  /\ pos' = g.pos
                   /\ frame_id' = g.frame_id
                   /\ frame' = g.frame
                   /\ labels' = g.labels
                   /\ mode' = g.mode
                   /\ hist' = Append(hist, Event("key", key, NaN, NaN, g, TRUE, g.mode))
            /\ UNCHANGED <<alive, saves, csv>>
       ELSE UNCHANGED <<pos, frame, frame_id, labels, mode, alive,
                        saves, csv, hist>>
    /\ pc' = LoopHead(alive', labels', frame_id')
    /\ UNCHANGED <<num_frames, frame_skip, force_mode>>

Next ==
    \/ Startup
    \/ \E event \in MouseEvents, p \in Points : MouseEvent(event, p[1], p[2])
    \/ \E key \in Keys : WaitKey(key)

Spec == Init /\ [][Next]_vars

\* ------------------------------------------------------- reading the history
Last == hist[Len(hist)]
IsClick(e) == e.ev = "click"
IsNavKey(e) == e.ev = "key" /\ e.key \in {KEY_NEXT, KEY_PREV}
IsQuitKey(e) == e.ev = "key" /\ e.key \in {KEY_ESC, KEY_Q}
Started == pc \notin {"init", "IOError"}

\* entries i .. i+n-1 of hist exist and are all clicks
ClickRun(i, n) == i + n - 1 <= Len(hist) /\ \A k \in 0..(n - 1) : IsClick(hist[i + k])

\* the frame current at entry i was decoded by the handler right before it
FreshAt(i) == i > 1 /\ hist[i - 1].rv /\ hist[i].mode0 = 0

\* the table holds (x, y) in the cells of mode m of row f
Holds(lbl, f, m, x, y) ==
    f \in DOMAIN lbl /\ lbl[f][ColX(m)] = x /\ lbl[f][ColY(m)] = y

\* the frame ids a successful decode left as the current frame
Shown == {hist[i].fid1 : i \in {j \in DOMAIN hist : hist[j].rv}}

CoordColumns == {ColX(m) : m \in 0..3} \cup {ColY(m) : m \in 0..3}

\* ------------------------------------------------------------------- C1
\* The first four clicks of a run on a freshly shown frame, as C1 and its
\* amendment both state them: same row, modes HA, HP, VA, VP in order, and
\* right after the 4th click the row holds the four pairs, presented = 1,
\* and the mode cursor is back at HA.
FourClicksFillRow(i) ==
    /\ \A k \in 0..3 : hist[i + k].fid0 = hist[i].fid0 /\ hist[i + k].mode0 = k
    /\ Len(hist) = i + 3 =>
          /\ \A k \in 0..3 : Holds(labels, hist[i].fid0, k, hist[i + k].x, hist[i + k].y)
          /\ labels[hist[i].fid0]["presented"] = 1
          /\ mode = 0

\* C1 as stated: without forced mode, four consecutive clicks on a freshly
\* shown frame fill HA, HP, VA, VP of that frame's row; the 4th click
\* advances to a new frame at mode HA, and a 5th click is recorded as HA of
\* that next frame.
C1_ModeCycleAlwaysAdvances ==
    force_mode = None =>
      \A i \in DOMAIN hist :
        (FreshAt(i) /\ ClickRun(i, 4)) =>
          /\ FourClicksFillRow(i)
          /\ Len(hist) = i + 3 =>
                (frame # hist[i].frame0 /\ frame_id # hist[i].fid0)
          /\ (Len(hist) = i + 4 /\ IsClick(Last)) =>
                /\ Last.mode0 = 0
                /\ Last.fid0 # hist[i].fid0
                /\ Holds(labels, Last.fid0, 0, Last.x, Last.y)

\* C1 amended: as above, but the 4th click lands on a new frame only when
\* its decode succeeds; at the end of the stream the held frame stays and
\* the mode cursor is still reset to HA.
C1_ModeCycle ==
    force_mode = None =>
      \A i \in DOMAIN hist :
        (FreshAt(i) /\ ClickRun(i, 4)) =>
          /\ FourClicksFillRow(i)
          /\ hist[i + 3].grabbed
          /\ \A k \in 0..2 : ~hist[i + k].grabbed
          /\ Len(hist) = i + 3 =>
                IF Last.rv
                THEN /\ frame # hist[i].frame0
                     /\ frame_id # hist[i].fid0
                     /\ labels[frame_id]["presented"] = 1
                ELSE frame = hist[i].frame0
          /\ (Len(hist) = i + 4 /\ IsClick(Last)) =>
                /\ Last.mode0 = 0
                /\ Holds(labels, Last.fid0, 0, Last.x, Last.y)
                /\ hist[i + 3].rv => Last.fid0 # hist[i].fid0

C1_Witness ==
    /\ force_mode = None
    /\ Len(hist) = 6
    /\ ClickRun(2, 5)
    /\ hist[5].rv
    /\ frame_skip = 2

\* ------------------------------------------------------------------- C2
\* C2: with a forced mode M, only the cells of mode M are ever written,
\* every click is dispatched at mode M and performs the frame advance
\* (grab), and the mode is M again afterwards.
C2_ForcedMode ==
    force_mode # None =>
      /\ \A f \in DOMAIN labels : \A m \in 0..3 :
            m # force_mode => labels[f][ColX(m)] = NaN /\ labels[f][ColY(m)] = NaN
      /\ \A i \in DOMAIN hist :
            /\ IsClick(hist[i]) =>
                  /\ hist[i].mode0 = force_mode
                  /\ hist[i].grabbed
                  /\ hist[i].mode1 = force_mode
            /\ IsNavKey(hist[i]) => hist[i].mode1 = force_mode
      /\ (hist # <<>> /\ IsClick(Last)) =>
            Holds(labels, Last.fid0, force_mode, Last.x, Last.y)
      /\ Started => mode = force_mode

C2_Witness ==
    /\ force_mode = 0
    /\ Len(hist) = 5
    /\ IsClick(hist[2]) /\ hist[2].rv
    /\ IsNavKey(hist[3])
    /\ IsClick(hist[4])
    /\ IsClick(hist[5])

\* ------------------------------------------------------------------- C3
\* C3: the table always has exactly num_frames rows, 0 .. num_frames-1.
C3_RowsFixed == DOMAIN labels = 0..(num_frames - 1)

\* ------------------------------------------------------------------- C4
\* C4: after startup the current frame id is within [0, num_frames).
C4_FrameIdInRange == Started => frame_id \in 0..(num_frames - 1)

\* ------------------------------------------------------------------- C5
\* C5: a session that reached the interactive loop writes the table exactly
\* once, on termination: nothing is written while alive, and a session that
\* has ended has written once.
C5_SavedExactlyOnce ==
    /\ alive => saves = 0
    /\ ~alive => saves = 1
    /\ (Started /\ pc # "waitKey") => saves = 1

\* ------------------------------------------------------------------- C6
\* C6: a failed decode while a frame is held is not an error: the session
\* does not fail and keeps holding the last decoded frame.
C6_EndOfStreamStaysPut ==
    \A i \in DOMAIN hist :
        (hist[i].grabbed /\ ~hist[i].rv /\ hist[i].frame0 # None) =>
            /\ hist[i].frame1 = hist[i].frame0
            /\ pc \in {"waitKey", "returned"}

\* ------------------------------------------------------------------- C7
\* C7: when the startup decode fails the session ends with IOError before
\* the loop: no click or key is dispatched and nothing is written.
C7_FirstDecodeFailureFatal ==
    (hist # <<>> /\ ~hist[1].rv) =>
        /\ pc = "IOError"
        /\ Len(hist) = 1
        /\ saves = 0
        /\ csv = <<>>
        /\ labels = CreateLabels(num_frames)

C7_Witness == pc = "IOError" /\ num_frames = 0

ClickAndNavKeyInTick == lastTick /\ IsNavKey(Last)
TickClick == hist[Len(hist) - 1]

\* C9 as stated: the key is dispatched first, so the click of the same tick
\* is recorded on the frame and mode the key's navigation results in.
C9_KeyBeforeClick ==
    ClickAndNavKeyInTick =>
        Holds(labels, Last.fid1, Last.mode1, TickClick.x, TickClick.y)

\* C9 amended: the click is dispatched first (inside waitKey) and the key
\* second: the click is recorded on the frame and mode that were current
\* before the key, and the key navigates from the state the click left.
C9_ClickBeforeKey ==
    ClickAndNavKeyInTick =>
        /\ IsClick(TickClick)
        /\ Holds(labels, TickClick.fid0, TickClick.mode0, TickClick.x, TickClick.y)
        /\ Last.fid0 = TickClick.fid1
        /\ Last.mode0 = TickClick.mode1

C9_Witness ==
    /\ ClickAndNavKeyInTick
    /\ Last.rv
    /\ Last.fid1 # TickClick.fid0
    /\ ~Holds(labels, Last.fid1, Last.mode1, TickClick.x, TickClick.y)

\* ------------------------------------------------------------------ C10
PrevUnclamped(e) == e.ev = "key" /\ e.key = KEY_PREV /\ e.fid0 - frame_skip - 2 >= 0
NextDecoded(e) == e.ev = "key" /\ e.key = KEY_NEXT /\ e.rv

\* C10: away from the start and the end of the video a prev key moves the
\* frame id back by as many frames as a next key moves it forward, and
\* prev-then-next and next-then-prev return to the same frame id.
C10_StepDensity ==
    /\ \A i, j \in DOMAIN hist :
          (PrevUnclamped(hist[i]) /\ NextDecoded(hist[j])) =>
              hist[i].fid0 - hist[i].fid1 = hist[j].fid1 - hist[j].fid0
    /\ \A i \in DOMAIN hist : i + 1 <= Len(hist) =>
          /\ (PrevUnclamped(hist[i]) /\ NextDecoded(hist[i + 1])) =>
                hist[i + 1].fid1 = hist[i].fid0
          /\ (NextDecoded(hist[i]) /\ PrevUnclamped(hist[i + 1])) =>
                hist[i + 1].fid1 = hist[i].fid0

C10_Witness ==
    /\ frame_skip = 2
    /\ Len(hist) = 5
    /\ NextDecoded(hist[2])
    /\ PrevUnclamped(hist[3])
    /\ NextDecoded(hist[4])
    /\ PrevUnclamped(hist[5])

\* ------------------------------------------------------ reading one step
\* the step dispatched a handler; New is its entry in hist
Dispatched == Len(hist') = Len(hist) + 1
New == hist'[Len(hist')]

\* the reset value of the mode cursor
FirstOrForced == IF force_mode # None THEN force_mode ELSE 0

\* ------------------------------------------------------------------ C11
\* C11: a next key changes no coordinate cell: every cell of every row keeps
\* its value, except that presented of the newly decoded frame's row becomes
\* 1 (a row the decode appends holds no coordinate); a failed decode leaves
\* the table as it was.
C11_NextKeepsCells ==
    [][(Dispatched /\ New.ev = "key" /\ New.key = KEY_NEXT) =>
          /\ DOMAIN labels \subseteq DOMAIN labels'
          /\ \A f \in DOMAIN labels' : \A c \in ColumnSet :
                \/ f \in DOMAIN labels /\ labels'[f][c] = labels[f][c]
                \/ f \notin DOMAIN labels /\ c # "presented" /\ labels'[f][c] = NaN
                \/ /\ New.rv /\ f = frame_id' /\ c = "presented"
                   /\ labels'[f][c] = 1
          /\ ~New.rv => labels' = labels
          /\ New.rv => labels'[frame_id']["presented"] = 1]_vars

C11_Witness ==
    /\ Len(hist) = 4
    /\ IsClick(hist[2])
    /\ hist[3].key = KEY_PREV
    /\ hist[4].key = KEY_NEXT /\ hist[4].rv
    /\ Holds(labels, hist[2].fid0, hist[2].mode0, hist[2].x, hist[2].y)
    /\ hist[4].fid1 \notin {hist[1].fid1, hist[3].fid1}

\* ------------------------------------------------------------------ C12
\* C12: every navigation (next key, prev key, auto-advance of a click),
\* whether its decode succeeds or not, leaves the mode cursor at the forced
\* mode if one is configured and at HA otherwise.
C12_NavigationResetsMode ==
    /\ \A i \in DOMAIN hist :
          (hist[i].grabbed /\ hist[i].ev # "startup") => hist[i].mode1 = FirstOrForced
    /\ (hist # <<>> /\ Last.grabbed /\ Started) => mode = FirstOrForced

C12_Witness ==
    /\ force_mode = None
    /\ Len(hist) = 5
    /\ IsClick(hist[2]) /\ IsClick(hist[3])
    /\ hist[4].key = KEY_PREV /\ hist[4].mode0 = 2
    /\ hist[5].key = KEY_NEXT /\ ~hist[5].rv

\* ------------------------------------------------------------------ C13
\* C13: whenever an event can be dispatched (the loop is polling), the mode
\* cursor is a valid index 0..3 into MODES.
C13_ModeIsValidIndex == pc = "waitKey" => mode \in 0..(Len(MODES) - 1)

C13_Witness ==
    /\ pc = "waitKey"
    /\ force_mode = 3
    /\ Len(hist) >= 3
    /\ IsClick(Last) /\ ~Last.rv
    /\ mode = 3

\* ------------------------------------------------------------------ C14
\* C14: presented is monotonic: a row whose presented flag is 1 before a
\* step still exists and has presented = 1 after it.
C14_PresentedMonotonic ==
    [][\A f \in DOMAIN labels :
          labels[f]["presented"] = 1 =>
              (f \in DOMAIN labels' /\ labels'[f]["presented"] = 1)]_vars

C14_Witness ==
    /\ Len(hist) = 5
    /\ IsClick(hist[2])
    /\ hist[3].key = KEY_NEXT /\ hist[3].rv
    /\ hist[4].key = KEY_PREV /\ hist[4].fid1 = hist[2].fid0
    /\ IsClick(hist[5])
    /\ labels[hist[2].fid0]["presented"] = 1
    /\ labels[hist[3].fid1]["presented"] = 1

\* ------------------------------------------------------------------ C15
\* the cell (f, m) was clicked by an earlier entry of hist
ClickedBefore(f, m) ==
    \E j \in DOMAIN hist : IsClick(hist[j]) /\ hist[j].fid0 = f /\ hist[j].mode0 = m

\* C15: a second click on the same (frame, mode) stores exactly its own
\* (x, y) there; no coordinate of any other (frame, mode) changes and no
\* row is added.
C15_LastClickWins ==
    [][(Dispatched /\ IsClick(New) /\ ClickedBefore(frame_id, mode)) =>
          /\ Holds(labels', frame_id, mode, New.x, New.y)
          /\ DOMAIN labels' = DOMAIN labels
          /\ \A f \in DOMAIN labels : \A m \in 0..3 :
                (f # frame_id \/ m # mode) =>
                    /\ labels'[f][ColX(m)] = labels[f][ColX(m)]
                    /\ labels'[f][ColY(m)] = labels[f][ColY(m)]]_vars

C15_Witness ==
    /\ Len(hist) = 5
    /\ IsClick(hist[2])
    /\ IsNavKey(hist[3]) /\ hist[3].rv
    /\ IsNavKey(hist[4]) /\ hist[4].rv
    /\ IsClick(hist[5])
    /\ hist[5].fid0 = hist[2].fid0 /\ hist[5].mode0 = hist[2].mode0
    /\ hist[5].x # hist[2].x
    /\ Holds(labels, hist[5].fid0, hist[5].mode0, hist[5].x, hist[5].y)

\* ------------------------------------------------------------------ C16
\* C16: frame_id names the held frame: a decode that fails while a frame is
\* held, and so does not replace it, leaves frame_id as it was.
C16_FrameIdNamesHeldFrame ==
    \A i \in DOMAIN hist :
        (hist[i].grabbed /\ ~hist[i].rv /\ hist[i].frame0 # None) =>
            (hist[i].frame1 = hist[i].frame0 /\ hist[i].fid1 = hist[i].fid0)

\* ------------------------------------------------------------------ C17
\* C17: every row that holds a coordinate has presented = 1.
C17_LabelsOnlyOnPresented ==
    \A f \in DOMAIN labels :
        (\E c \in CoordColumns : labels[f][c] # NaN) => labels[f]["presented"] = 1

\* ------------------------------------------------------------------ C18
\* the last click dispatched on its (frame, mode) cell
LastClickOnCell(i) ==
    /\ IsClick(hist[i])
    /\ \A j \in DOMAIN hist :
          (j > i /\ IsClick(hist[j])) =>
              (hist[j].fid0 # hist[i].fid0 \/ hist[j].mode0 # hist[i].mode0)

\* C18: once the quit key is processed nothing more is dispatched and the
\* table, frame_id and mode stay as the quit found them; the file written
\* equals the table and holds every click of the session, the click of the
\* quit's own tick included.
C18_NothingAfterSave ==
    ~alive =>
        /\ pc = "returned"
        /\ IsQuitKey(Last)
        /\ \A i \in DOMAIN hist : i < Len(hist) => ~IsQuitKey(hist[i])
        /\ saves = 1
        /\ csv = labels
        /\ frame_id = Last.fid0
        /\ mode = Last.mode0
        /\ frame = Last.frame0
        /\ \A i \in DOMAIN hist :
              LastClickOnCell(i) =>
                  Holds(csv, hist[i].fid0, hist[i].mode0, hist[i].x, hist[i].y)
        /\ lastTick => LastClickOnCell(Len(hist) - 1)

C18_Witness ==
    /\ ~alive
    /\ lastTick
    /\ Len(hist) = 5
    /\ IsClick(hist[2])
    /\ IsNavKey(hist[3])
    /\ IsClick(hist[4]) /\ hist[4].fid0 # hist[2].fid0

\* ------------------------------------------------------------------ C19
PrevClamped(e) == e.ev = "key" /\ e.key = KEY_PREV /\ e.fid0 - frame_skip - 2 <= 0

\* C19: frame_id is read back from the stream position after the decode,
\* so after startup it is at least 1 (the startup seek and a prev clamped
\* at 0 both give 1), and row 0 is never presented and never holds a
\* coordinate.
C19_RowZeroUnused ==
    Started =>
        /\ frame_id >= 1
        /\ hist[1].fid1 = 1
        /\ \A i \in DOMAIN hist : PrevClamped(hist[i]) => hist[i].fid1 = 1
        /\ \A i \in DOMAIN hist : IsClick(hist[i]) => hist[i].fid0 >= 1
        /\ labels[0]["presented"] = 0
        /\ \A c \in CoordColumns : labels[0][c] = NaN

C19_Witness ==
    /\ Len(hist) = 4
    /\ hist[2].key = KEY_NEXT /\ hist[2].rv
    /\ PrevClamped(hist[3])
    /\ IsClick(hist[4])
    /\ frame_id = 1

====
